---- MODULE Spec2Model ----
(***************************************************************************)
(* Playback orchestration of the podcast radio bot (src/index.js).         *)
(*                                                                         *)
(* The program is a single-threaded event loop: every action below is one  *)
(* handler (or one continuation of an async function after an await) run   *)
(* to completion.  The transcoder processes, the HTTP fetch, the timers,   *)
(* the audio player of the voice library and the voice-state gateway are   *)
(* the independent event sources.                                          *)
(***************************************************************************)
EXTENDS Integers, Sequences, FiniteSets, Bags, TLC

\* ----------------------------------------------------------------- bounds
MaxProcs   == 2   \* transcoder handles in use at the same time
MaxTimers  == 2   \* pending setTimeout(loopPlay, ...) timers
MaxTicks   == 3   \* clock readings (in steps of TickMs)
MaxPending == 1   \* command handlers suspended in `await interaction.reply`
MaxStepsBack == 1 \* times the wall clock is set back
MaxConns   == 3   \* voice connections created over the run
MaxRejoin  == 2   \* Disconnected handlers / rejoin timers pending at once
PipeCap    == 2   \* chunks an unread pipe holds before a write to it blocks
MaxOffsetMs == 2500   \* largest offsetMs handed to spawnFfmpegFromStream

\* ------------------------------------------------------ program constants
RESUME_RESTART_THRESHOLD_MS == 300000

\* The clock advances in steps of half the threshold, so accumulated
\* offsets fall below, exactly on and above the threshold.
TickMs == RESUME_RESTART_THRESHOLD_MS \div 2

\* JavaScript's NaN, the value of x % 0
NaN == -1

\* null / undefined object reference
Null == 0

\* where a member can be: in no voice channel or in the target channel
Loc == {"none", "target"}

\* ... or in another voice channel of the guild
Places == Loc \cup {"other"}

\* An RSS item is its publication date, which also identifies the episode;
\* 0 is an item without an http url.  The feed lists the newest item first.
StableFeed == { <<2, 0, 1>> }

\* a feed with a single episode: every advance of the index wraps to 0
SingleFeed == { <<1>> }

\* a feed that changes between refreshes: the stable feed, the feed after
\* the publisher dropped its older items, a feed with no playable item and
\* a feed with no item
ChangingFeed == StableFeed \cup { <<2>>, <<0>>, << >> }

VARIABLES
  episodes,                \* let episodes = []          (sorted catalog)
  episodeIndex,            \* let episodeIndex = 0
  hasStartedPlayback,
  isPausedDueToEmpty,
  resumeOffsetMs,
  startedAtMs,
  ffmpegProc,              \* pid of the child in `ffmpegProc`, Null if null
  currentEpisode,          \* episode id, Null if null
  playLock,
  lastAnnouncedEpisodeIdx,
  playerStatus,            \* player.state.status
  playerRes,               \* pid whose stdout is the player's resource
  procs,                   \* every transcoder spawned so far, by pid
  fetch,                   \* the playCurrent suspended in `await axiosStream`
  loopTimers,              \* pending setTimeout(loopPlay, ...)
  cmdPending,              \* commands suspended before their playCurrent()
  now,                     \* Date.now()
  stepsBack,               \* times the wall clock was set back so far
  humanLoc,                \* where the (one) human listener is
  mainPc,                  \* where main() is
  connection,              \* `connection`: its generation, Null if null
  connStatus,              \* state.status of every connection, by generation
  waiters,                 \* Disconnected handlers in their entersState race
  rejoinTimers,            \* pending setTimeout(..., REJOIN_DELAY_MS)
  ensurePending,           \* ensureConnection() calls of rejoin timers
                           \* awaiting client.channels.fetch
  keepAliveInterval,       \* `keepAliveInterval`: the connection its
                           \* callback captured, Null if null
  intervals,               \* the setInterval timers not cleared, each by
                           \* the connection its callback captured
  stderrFill,              \* unread chunks in the stderr pipe of each pid
  spawnIn,                 \* arguments of a spawnFfmpegFromStream call
  spawnArgs                \* its `args`, << >> before the call

vars == << episodes, episodeIndex, hasStartedPlayback, isPausedDueToEmpty,
           resumeOffsetMs, startedAtMs, ffmpegProc, currentEpisode, playLock,
           lastAnnouncedEpisodeIdx, playerStatus, playerRes, procs, fetch,
           loopTimers, cmdPending, now, stepsBack, humanLoc, mainPc,
           connection, connStatus, waiters, rejoinTimers, ensurePending,
           keepAliveInterval, intervals, stderrFill, spawnIn, spawnArgs >>

catalogVars == << episodes >>
sessionVars == << episodeIndex, hasStartedPlayback, isPausedDueToEmpty,
                  resumeOffsetMs, startedAtMs, ffmpegProc, currentEpisode,
                  playLock, lastAnnouncedEpisodeIdx >>
playerVars  == << playerStatus, playerRes >>
clockVars   == << now, stepsBack >>
connVars    == << mainPc, connection, connStatus, waiters, rejoinTimers,
                  ensurePending >>
ioVars      == << stderrFill, spawnIn, spawnArgs >>
kaVars      == << keepAliveInterval, intervals >>

\* ---------------------------------------------------------------- helpers
\* a % n in JavaScript, for a >= 0
JsMod(a, n) == IF a = NaN \/ n = 0 THEN NaN ELSE a % n

\* NextIndex without the modulo
NextIndexNoWrap(i) == IF i = NaN THEN NaN ELSE i + 1

\* (episodeIndex + 1) % episodes.length
NextIndex(i) == JsMod(IF i = NaN THEN NaN ELSE i + 1, Len(episodes))

\* episodes[i % episodes.length]
EpisodeAt(i) ==
  IF JsMod(i, Len(episodes)) = NaN THEN Null
  ELSE episodes[JsMod(i, Len(episodes)) + 1]

\* Elapsed without Math.max(0, ...)
ElapsedNoClamp ==
  now - (IF startedAtMs = 0 THEN now ELSE startedAtMs)

\* Math.max(0, Date.now() - (startedAtMs || Date.now()))
Elapsed ==
  LET base == IF startedAtMs = 0 THEN now ELSE startedAtMs
      d    == now - base
  IN  IF d > 0 THEN d ELSE 0

\* child.kill('SIGKILL') on `ffmpegProc?.`: nothing when null or already gone
Kill(ps, p) ==
  IF p = Null \/ ps[p].state # "running" THEN ps
  ELSE [ps EXCEPT ![p].state = "killed"]

\* Handles are numbered by the slot they occupy; a slot is free ("gone")
\* until a transcoder is spawned into it and again once nothing of the
\* program can reach the handle any more.
Pids == 1 .. MaxProcs
Alive(p) == p # Null /\ procs[p].state = "running"
LiveProcs == { p \in Pids : Alive(p) }

\* A free slot: no handle, or one the program can no longer reach (the
\* process is gone, its watchdog has fired or was cleared, and the player
\* has dropped its stream).
Gone ==
  [ state |-> "gone", gotData |-> FALSE, wd |-> FALSE, isNew |-> FALSE,
    ep |-> Null, seek |-> 0, firstAt |-> 0, charged |-> FALSE ]

\* What is left of the handles once the player holds the stream of `cur`.
\* The player destroys the stream of a resource it drops, so the 'data'
\* listener of any other handle never runs again: of such a handle only the
\* process (running or dead) and an armed watchdog remain, the rest of its
\* closure is garbage.
Forget(ps, cur) ==
  [ p \in DOMAIN ps |->
      IF p = cur THEN ps[p]
      ELSE IF ps[p].state # "running" /\ ~ps[p].wd THEN Gone
      ELSE [ Gone EXCEPT !.state = IF ps[p].state = "running"
                                  THEN "running" ELSE "dead",
                         !.wd = ps[p].wd,
                         !.charged = ps[p].wd /\ ps[p].charged ] ]

\* no playCurrent is suspended in its fetch
NoFetch ==
  [active |-> FALSE, ep |-> Null, isNew |-> FALSE, idx |-> 0, off |-> 0,
   by |-> "none"]

\* ------------------------------------------------------------------- Init
Boot ==
  /\ episodes = << >>
  /\ episodeIndex = 0
  /\ hasStartedPlayback = FALSE
  /\ isPausedDueToEmpty = FALSE
  /\ resumeOffsetMs = 0
  /\ startedAtMs = 0
  /\ ffmpegProc = Null
  /\ currentEpisode = Null
  /\ playLock = FALSE
  /\ lastAnnouncedEpisodeIdx = -1
  /\ playerStatus = "idle"
  /\ playerRes = Null
  /\ procs = [p \in Pids |-> Gone]
  /\ fetch = NoFetch
  /\ loopTimers = 0
  /\ cmdPending = << >>
  /\ now = TickMs
  /\ stepsBack = 0
  /\ humanLoc \in Loc
  /\ mainPc = "fetchEpisodes"
  /\ connection = Null
  /\ connStatus = [g \in 1 .. MaxConns |-> "none"]
  /\ waiters = EmptyBag
  /\ rejoinTimers = EmptyBag
  /\ ensurePending = 0
  /\ keepAliveInterval = Null
  /\ intervals = {}
  /\ stderrFill = [p \in Pids |-> 0]
  /\ spawnArgs = << >>

\* no call of spawnFfmpegFromStream is looked at on its own
NoSpawn == [ fmt |-> "null", offsetMs |-> -1 ]

\* the state after construction
Init == Boot /\ spawnIn = NoSpawn

\* ----------------------------------------------------------- fetchEpisodes
\* items.sort((a, b) => a.pubDate - b.pubDate): insertion into a sorted list
RECURSIVE Insert(_, _)
Insert(x, s) ==
  IF s = << >> THEN << x >>
  ELSE IF x <= Head(s) THEN << x >> \o s
  ELSE << Head(s) >> \o Insert(x, Tail(s))

RECURSIVE SortByPubDate(_)
SortByPubDate(s) ==
  IF s = << >> THEN << >> ELSE Insert(Head(s), SortByPubDate(Tail(s)))

\* .filter(x => typeof x.url === 'string' && x.url.startsWith('http'))
HasHttpUrl(x) == x # 0

\* LoadEpisodes without `if (items.length)`
LoadEpisodesAlways(feeds) ==
  \E ok \in BOOLEAN, feed \in feeds :
    LET items == SortByPubDate(SelectSeq(feed, HasHttpUrl))
    IN  episodes' = IF ok THEN items ELSE episodes

\* the body of fetchEpisodes(), the server answering with one of `feeds`;
\* a rejected parseURL is caught and leaves the list alone, and so does a
\* feed without a playable item.
LoadEpisodes(feeds) ==
  \E ok \in BOOLEAN, feed \in feeds :
    LET items == SortByPubDate(SelectSeq(feed, HasHttpUrl))
    IN  episodes' = IF ok /\ Len(items) > 0 THEN items ELSE episodes

\* fetchEpisodes() as the playback session sees it: at some time after
\* login and again every REFRESH_RSS_MS
FetchEpisodes(feeds) ==
  /\ LoadEpisodes(feeds)
  /\ UNCHANGED << ioVars, kaVars, sessionVars, playerVars, procs, fetch,
                  loopTimers, cmdPending, clockVars, connVars, humanLoc >>

\* ------------------------------------------------------------- playCurrent
\* PlayCurrentSync without the setTimeout(loopPlay, 30_000) of the empty
\* catalog
PlayCurrentSyncNoRetry(by, idx, off, tm) ==
  IF playLock \/ Len(episodes) = 0
  THEN /\ loopTimers' = tm
       /\ UNCHANGED << playLock, currentEpisode, fetch >>
  ELSE /\ playLock' = TRUE
       /\ currentEpisode' = EpisodeAt(idx)
       /\ fetch' = [active |-> TRUE, ep |-> EpisodeAt(idx),
                    isNew |-> (off = 0 /\ idx # lastAnnouncedEpisodeIdx),
                    idx |-> idx, off |-> off, by |-> by]
       /\ loopTimers' = tm

\* PlayCurrentSync without `if (playLock) return`
PlayCurrentSyncNoLock(by, idx, off, tm) ==
  IF Len(episodes) = 0
  THEN /\ tm < MaxTimers
       /\ loopTimers' = tm + 1
       /\ UNCHANGED << playLock, currentEpisode, fetch >>
  ELSE /\ playLock' = TRUE
       /\ currentEpisode' = EpisodeAt(idx)
       /\ fetch' = [active |-> TRUE, ep |-> EpisodeAt(idx),
                    isNew |-> (off = 0 /\ idx # lastAnnouncedEpisodeIdx),
                    idx |-> idx, off |-> off, by |-> by]
       /\ loopTimers' = tm

\* playCurrent() up to `await axiosStream(...)`, called by `by` ("first",
\* "return", "loop", or the command "skip", "restart", "resume") with the
\* index and offset its caller has just written and tm timers pending.
PlayCurrentSync(by, idx, off, tm) ==
  IF playLock
  THEN /\ loopTimers' = tm
       /\ UNCHANGED << playLock, currentEpisode, fetch >>
  ELSE IF Len(episodes) = 0
  THEN /\ tm < MaxTimers
       /\ loopTimers' = tm + 1
       /\ UNCHANGED << playLock, currentEpisode, fetch >>
  ELSE /\ playLock' = TRUE
       /\ currentEpisode' = EpisodeAt(idx)
       /\ fetch' = [active |-> TRUE, ep |-> EpisodeAt(idx),
                    isNew |-> (off = 0 /\ idx # lastAnnouncedEpisodeIdx),
                    idx |-> idx, off |-> off,   \* history: as called
                    by |-> by]                  \* history: the caller
       /\ loopTimers' = tm

\* function loopPlay()
LoopPlaySync(by, started, paused, idx, off, tm) ==
  IF ~started \/ paused
  THEN /\ loopTimers' = tm
       /\ UNCHANGED << playLock, currentEpisode, fetch >>
  ELSE PlayCurrentSync(by, idx, off, tm)

\* the transcoder started by spawnFfmpegFromStream, with its watchdog armed
NewProc ==
  [ state   |-> "running",
    gotData |-> FALSE,            \* let gotData = false
    wd      |-> TRUE,             \* const watchdog = setTimeout(...)
    isNew   |-> fetch.isNew,      \* const isNewEpisodeStart
    ep      |-> fetch.ep,         \* the url that was fetched
    seek    |-> resumeOffsetMs,   \* offsetMs argument
    firstAt |-> 0,                \* history: clock at the first output byte
    charged |-> FALSE ]           \* history: the index advanced on its account

\* fmt: what inferInputFormat returns; "null" stands for null
Formats == { "mp3", "mp4", "null" }

\* Math.round(offsetMs / 1000).toString()
SkipSecRounded(offsetMs) == ToString((offsetMs + 500) \div 1000)

\* Math.floor(offsetMs / 1000).toString()
SkipSec(offsetMs) == ToString(offsetMs \div 1000)

\* const args = [...] of spawnFfmpegFromStream(stream, fmt, offsetMs)
Args(fmt, offsetMs) ==
  << "-hide_banner",
     "-loglevel", "error",
     "-protocol_whitelist", "file,http,https,tcp,tls,pipe",
     "-ss", SkipSec(offsetMs) >>
  \o (IF fmt # "null" THEN << "-f", fmt >> ELSE << >>)
  \o << "-i", "pipe:0",
        "-vn",
        "-ac", "2",
        "-ar", "48000",
        "-c:a", "libopus",
        "-b:a", "96k",
        "-application", "audio",
        "-f", "ogg",
        "pipe:1" >>

\* the calls of spawnFfmpegFromStream that are looked at on their own
SpawnInputs == [ fmt : Formats, offsetMs : 0 .. MaxOffsetMs ]

\* the state after construction, with one call singled out
InitSpawn == Boot /\ spawnIn \in SpawnInputs

\* spawnFfmpegFromStream(stream, spawnIn.fmt, spawnIn.offsetMs) builds args
SpawnFfmpeg ==
  /\ spawnIn # NoSpawn
  /\ spawnArgs = << >>
  /\ spawnArgs' = Args(spawnIn.fmt, spawnIn.offsetMs)
  /\ UNCHANGED << stderrFill, spawnIn, kaVars, catalogVars, sessionVars,
                  playerVars, procs, fetch, loopTimers, cmdPending, clockVars,
                  connVars, humanLoc >>

\* the slot the next spawned transcoder takes
FreeSlots(ps) == { p \in Pids : ps[p].state = "gone" }
NewPid(ps) == CHOOSE p \in FreeSlots(ps) : \A q \in FreeSlots(ps) : p <= q

\* playCurrent() after axiosStream resolved: spawn, arm, play, unlock
FetchDone ==
  /\ fetch.active
  /\ FreeSlots(Forget(procs, Null)) # {}
  /\ LET old == Forget(procs, Null)
         pid == NewPid(old)
     IN  /\ procs' = [old EXCEPT ![pid] = NewProc]
         /\ ffmpegProc' = pid
         /\ playerRes' = pid
         /\ stderrFill' = [stderrFill EXCEPT ![pid] = 0]
  /\ playerStatus' = "buffering"
  /\ isPausedDueToEmpty' = FALSE
  /\ playLock' = FALSE
  /\ fetch' = NoFetch
  /\ UNCHANGED << spawnIn, spawnArgs, kaVars, catalogVars, episodeIndex,
                  hasStartedPlayback, resumeOffsetMs, startedAtMs,
                  currentEpisode, lastAnnouncedEpisodeIdx, loopTimers,
                  cmdPending, clockVars, connVars, humanLoc >>

\* the catch block without its setTimeout(loopPlay, 1000)
FetchFailNoRetry ==
  /\ fetch.active
  /\ resumeOffsetMs' = 0
  /\ episodeIndex' = NextIndex(episodeIndex)
  /\ playLock' = FALSE
  /\ fetch' = NoFetch
  /\ UNCHANGED << ioVars, kaVars, catalogVars, hasStartedPlayback,
                  isPausedDueToEmpty, startedAtMs, ffmpegProc, currentEpisode,
                  lastAnnouncedEpisodeIdx, playerVars, procs, loopTimers,
                  cmdPending, clockVars, connVars, humanLoc >>

\* playCurrent() after axiosStream (or spawn) threw: catch + finally
FetchFail ==
  /\ fetch.active
  /\ loopTimers < MaxTimers
  /\ resumeOffsetMs' = 0
  /\ episodeIndex' = NextIndex(episodeIndex)
  /\ loopTimers' = loopTimers + 1
  /\ playLock' = FALSE
  /\ fetch' = NoFetch
  /\ UNCHANGED << ioVars, kaVars, catalogVars, hasStartedPlayback,
                  isPausedDueToEmpty, startedAtMs, ffmpegProc, currentEpisode,
                  lastAnnouncedEpisodeIdx, playerVars, procs, cmdPending,
                  clockVars, connVars, humanLoc >>

\* playCurrent() after axiosStream resolved, when the transcoder cannot be
\* started (ENOENT, EAGAIN, EMFILE): spawn() returns a child and emits
\* 'error' on it on the next tick; spawnFfmpegFromStream registers no
\* 'error' listener on the child, so the event is an uncaught exception
\* and the process ends
SpawnError ==
  /\ fetch.active
  /\ mainPc' = "crashed"
  /\ UNCHANGED << ioVars, kaVars, catalogVars, sessionVars, playerVars, procs,
                  fetch, loopTimers, cmdPending, clockVars, humanLoc,
                  connection, connStatus, waiters, rejoinTimers,
                  ensurePending >>

\* a setTimeout(loopPlay, ...) timer fires
LoopPlayTimer ==
  /\ loopTimers > 0
  /\ LoopPlaySync("loop", hasStartedPlayback, isPausedDueToEmpty,
                  episodeIndex, resumeOffsetMs, loopTimers - 1)
  /\ UNCHANGED << ioVars, kaVars, catalogVars, episodeIndex,
                  hasStartedPlayback, isPausedDueToEmpty, resumeOffsetMs,
                  startedAtMs, ffmpegProc, lastAnnouncedEpisodeIdx,
                  playerVars, procs, cmdPending, clockVars, connVars,
                  humanLoc >>

\* ------------------------------------------------- transcoder and player
\* history: an advance of the source index is charged to handle p
Charge(ps, p) ==
  IF p = Null THEN ps ELSE [ps EXCEPT ![p].charged = TRUE]

\* FirstData without clearTimeout(watchdog)
FirstDataKeepsWatchdog(p) ==
  /\ Alive(p)
  /\ ~procs[p].gotData
  /\ playerRes = p /\ playerStatus = "buffering"
  /\ procs' = [procs EXCEPT ![p].gotData = TRUE, ![p].firstAt = now]
  /\ startedAtMs' = now
  /\ lastAnnouncedEpisodeIdx' =
       IF procs[p].isNew THEN episodeIndex ELSE lastAnnouncedEpisodeIdx
  /\ UNCHANGED << ioVars, kaVars, catalogVars, episodeIndex,
                  hasStartedPlayback, isPausedDueToEmpty, resumeOffsetMs,
                  ffmpegProc, currentEpisode, playLock, playerVars, fetch,
                  loopTimers, cmdPending, clockVars, connVars, humanLoc >>

\* ffmpegProc.stdout.once('data', ...): the first output byte of p.  The
\* stream delivers data only while the player still holds it (the player
\* destroys the stream of a resource it drops).
FirstData(p) ==
  /\ Alive(p)
  /\ ~procs[p].gotData
  /\ playerRes = p /\ playerStatus = "buffering"
  /\ procs' = [procs EXCEPT ![p].gotData = TRUE, ![p].wd = FALSE,
                            ![p].firstAt = now]
  /\ startedAtMs' = now
  /\ lastAnnouncedEpisodeIdx' =
       IF procs[p].isNew THEN episodeIndex ELSE lastAnnouncedEpisodeIdx
  /\ UNCHANGED << ioVars, kaVars, catalogVars, episodeIndex,
                  hasStartedPlayback, isPausedDueToEmpty, resumeOffsetMs,
                  ffmpegProc, currentEpisode, playLock, playerVars, fetch,
                  loopTimers, cmdPending, clockVars, connVars, humanLoc >>

\* AudioPlayer: the buffering resource became readable
PlayerReadable ==
  /\ playerStatus = "buffering"
  /\ procs[playerRes].gotData
  /\ playerStatus' = "playing"
  /\ UNCHANGED << ioVars, kaVars, catalogVars, sessionVars, playerRes, procs,
                  fetch, loopTimers, cmdPending, clockVars, connVars,
                  humanLoc >>

\* a running transcoder exits on its own: end of input, crash, or a write
\* to an output pipe the player has closed
ProcExit(p) ==
  /\ Alive(p)
  /\ procs' = Forget([procs EXCEPT ![p].state = "exited"], playerRes)
  /\ UNCHANGED << ioVars, kaVars, catalogVars, sessionVars, playerVars, fetch,
                  loopTimers, cmdPending, clockVars, connVars, humanLoc >>

\* a running transcoder writes a diagnostic to its stderr, which
\* spawnFfmpegFromStream opens as a pipe ('pipe', 'pipe', 'pipe') and the
\* program never reads: the chunk stays in the pipe
StderrWrite(p) ==
  /\ Alive(p)
  /\ stderrFill[p] < PipeCap
  /\ stderrFill' = [stderrFill EXCEPT ![p] = stderrFill[p] + 1]
  /\ UNCHANGED << spawnIn, spawnArgs, kaVars, catalogVars, sessionVars,
                  playerVars, procs, fetch, loopTimers, cmdPending, clockVars,
                  connVars, humanLoc >>

\* the next diagnostic write of p blocks: its stderr pipe is full
StderrBlocks(p) == Alive(p) /\ stderrFill[p] = PipeCap

\* player.on(AudioPlayerStatus.Idle, ...): the player found the stream of
\* its resource ended and went Idle.  A paused player does not read its
\* resource and stays Paused until play() replaces the resource.
PlayerIdle ==
  /\ playerStatus \in {"buffering", "playing"}
  /\ ~Alive(playerRes)
  /\ playerStatus' = "idle"
  /\ playerRes' = Null
  /\ IF ~isPausedDueToEmpty
     THEN /\ loopTimers < MaxTimers
          /\ resumeOffsetMs' = 0
          /\ episodeIndex' = NextIndex(episodeIndex)
          /\ loopTimers' = loopTimers + 1
          /\ procs' = Forget(Charge(procs, playerRes), Null)
     ELSE /\ procs' = Forget(procs, Null)
          /\ UNCHANGED << resumeOffsetMs, episodeIndex, loopTimers >>
  /\ UNCHANGED << ioVars, kaVars, catalogVars, hasStartedPlayback,
                  isPausedDueToEmpty, startedAtMs, ffmpegProc, currentEpisode,
                  playLock, lastAnnouncedEpisodeIdx, fetch, cmdPending,
                  clockVars, connVars, humanLoc >>

\* player.on('error', ...): the stream of the player's resource errors; the
\* player emits 'error' and then goes Idle, which emits Idle
PlayerError ==
  /\ playerStatus # "idle"
  /\ playerStatus' = "idle"
  /\ playerRes' = Null
  /\ IF ~isPausedDueToEmpty
     THEN /\ loopTimers + 2 <= MaxTimers
          /\ resumeOffsetMs' = 0
          /\ episodeIndex' = NextIndex(NextIndex(episodeIndex))
          /\ loopTimers' = loopTimers + 2
          /\ procs' = Forget(Charge(procs, playerRes), Null)
     ELSE /\ procs' = Forget(procs, Null)
          /\ UNCHANGED << resumeOffsetMs, episodeIndex, loopTimers >>
  /\ UNCHANGED << ioVars, kaVars, catalogVars, hasStartedPlayback,
                  isPausedDueToEmpty, startedAtMs, ffmpegProc, currentEpisode,
                  playLock, lastAnnouncedEpisodeIdx, fetch, cmdPending,
                  clockVars, connVars, humanLoc >>

\* the startup watchdog armed for p fires (it was not cleared)
Watchdog(p) ==
  /\ procs[p].wd
  /\ IF ~procs[p].gotData /\ ~isPausedDueToEmpty
     THEN /\ loopTimers < MaxTimers
          /\ procs' = Forget(Charge(Kill([procs EXCEPT ![p].wd = FALSE],
                                         ffmpegProc), p), playerRes)
          /\ resumeOffsetMs' = 0
          /\ episodeIndex' = NextIndex(episodeIndex)
          /\ loopTimers' = loopTimers + 1
     ELSE /\ procs' = Forget([procs EXCEPT ![p].wd = FALSE], playerRes)
          /\ UNCHANGED << resumeOffsetMs, episodeIndex, loopTimers >>
  /\ UNCHANGED << ioVars, kaVars, catalogVars, hasStartedPlayback,
                  isPausedDueToEmpty, startedAtMs, ffmpegProc, currentEpisode,
                  playLock, lastAnnouncedEpisodeIdx, playerVars, fetch,
                  cmdPending, clockVars, connVars, humanLoc >>

\* the wall clock advances
Tick ==
  /\ now < MaxTicks * TickMs
  /\ now' = now + TickMs
  /\ UNCHANGED << ioVars, kaVars, catalogVars, sessionVars, playerVars, procs,
                  fetch, loopTimers, cmdPending, stepsBack, humanLoc,
                  connVars >>

\* the wall clock is set back (Date.now() is not monotonic)
ClockBack ==
  /\ stepsBack < MaxStepsBack
  /\ now > TickMs
  /\ now' = now - TickMs
  /\ stepsBack' = stepsBack + 1
  /\ UNCHANGED << ioVars, kaVars, catalogVars, sessionVars, playerVars, procs,
                  fetch, loopTimers, cmdPending, humanLoc, connVars >>

\* ------------------------------------------------------- voiceStateUpdate
Human  == [name |-> "listener", bot |-> FALSE]
Bot    == [name |-> "radio", bot |-> TRUE]

\* channel.members of the target channel once the human is at `loc`
Members(loc, botPresent) ==
  (IF loc = "target" THEN {Human} ELSE {}) \cup
  (IF botPresent THEN {Bot} ELSE {})

\* channel.members.filter(m => !m.user.bot)
Humans(members) == { m \in members : ~m.bot }

\* PauseForEmptyRoom with the play time assigned to the offset, not added
PauseOverwritingOffset ==
  /\ resumeOffsetMs' = Elapsed
  /\ isPausedDueToEmpty' = TRUE
  /\ playerStatus' = "paused"
  /\ procs' = Kill(procs, ffmpegProc)
  /\ ffmpegProc' = Null
  /\ UNCHANGED << hasStartedPlayback, playLock, currentEpisode, fetch,
                  loopTimers >>

\* the room is empty and the player is Playing: account the play time,
\* pause the player, kill the transcoder
PauseForEmptyRoom ==
  /\ resumeOffsetMs' = resumeOffsetMs + Elapsed
  /\ isPausedDueToEmpty' = TRUE
  /\ playerStatus' = "paused"
  /\ procs' = Kill(procs, ffmpegProc)
  /\ ffmpegProc' = Null
  /\ UNCHANGED << hasStartedPlayback, playLock, currentEpisode, fetch,
                  loopTimers >>

\* the handler from `humans.size === 0` on, for an event of the target channel
OnOccupancy(humans) ==
  LET overThreshold == resumeOffsetMs >= RESUME_RESTART_THRESHOLD_MS
      off == IF overThreshold THEN 0 ELSE resumeOffsetMs
  IN
  IF Cardinality(humans) = 0
  THEN IF playerStatus = "playing"
       THEN PauseForEmptyRoom
       ELSE UNCHANGED << resumeOffsetMs, isPausedDueToEmpty, playerStatus,
                         procs, ffmpegProc, hasStartedPlayback, playLock,
                         currentEpisode, fetch, loopTimers >>
  ELSE IF ~hasStartedPlayback
  THEN /\ hasStartedPlayback' = TRUE
       /\ LoopPlaySync("first", TRUE, isPausedDueToEmpty, episodeIndex,
                       resumeOffsetMs, loopTimers)
       /\ UNCHANGED << resumeOffsetMs, isPausedDueToEmpty, playerStatus,
                       procs, ffmpegProc >>
  ELSE IF isPausedDueToEmpty
  THEN /\ resumeOffsetMs' = off
       /\ isPausedDueToEmpty' = FALSE
       /\ PlayCurrentSync("return", episodeIndex, off, loopTimers)
       /\ UNCHANGED << playerStatus, procs, ffmpegProc, hasStartedPlayback >>
  ELSE IF playerStatus = "paused"
  THEN /\ resumeOffsetMs' = off
       /\ PlayCurrentSync("return", episodeIndex, off, loopTimers)
       /\ UNCHANGED << isPausedDueToEmpty, playerStatus, procs, ffmpegProc,
                       hasStartedPlayback >>
  ELSE UNCHANGED << resumeOffsetMs, isPausedDueToEmpty, playerStatus,
                    procs, ffmpegProc, hasStartedPlayback, playLock,
                    currentEpisode, fetch, loopTimers >>

\* client.on('voiceStateUpdate'): oldCh / newCh are oldState.channel and
\* newState.channel ("none" is null), members the target channel's members
\* after the update
VoiceHandler(oldCh, newCh, members) ==
  LET channel == IF oldCh # "none" THEN oldCh ELSE newCh
  IN  /\ IF channel = "none" \/ channel # "target"
         THEN UNCHANGED << resumeOffsetMs, isPausedDueToEmpty, playerStatus,
                           procs, ffmpegProc, hasStartedPlayback, playLock,
                           currentEpisode, fetch, loopTimers >>
         ELSE OnOccupancy(Humans(members))
      /\ UNCHANGED << ioVars, kaVars, catalogVars, episodeIndex, startedAtMs,
                      lastAnnouncedEpisodeIdx, playerRes, cmdPending,
                      clockVars, connVars >>

\* the human listener joins, leaves, moves between channels, or changes
\* its voice state (mute, deafen) where it is
VoiceStateUpdate(newCh, botPresent) ==
  /\ humanLoc' = newCh
  /\ VoiceHandler(humanLoc, newCh, Members(newCh, botPresent))

\* a bot (the radio itself, when it joins) changes voice state in the
\* target channel
BotVoiceStateUpdate(joined) ==
  /\ humanLoc' = humanLoc
  /\ VoiceHandler(IF joined THEN "none" ELSE "target", "target",
                  Members(humanLoc, TRUE))

\* a voiceStateUpdate of the target channel that finds no human in it
OccupancyZero ==
  \/ humanLoc = "target" /\ \E b \in BOOLEAN : VoiceStateUpdate("none", b)
  \/ humanLoc = "none" /\ \E j \in BOOLEAN : BotVoiceStateUpdate(j)

\* a voiceStateUpdate of the target channel that finds a human in it
OccupancyNonzero ==
  \/ \E b \in BOOLEAN : VoiceStateUpdate("target", b)
  \/ humanLoc = "target" /\ \E j \in BOOLEAN : BotVoiceStateUpdate(j)

\* --------------------------------------------------------- slash commands
\* the pending replies without the i-th (replies resolve in any order)
Remove(q, i) == SubSeq(q, 1, i - 1) \o SubSeq(q, i + 1, Len(q))

\* handleSkip up to `await interaction.reply`
HandleSkip ==
  /\ Len(episodes) > 0
  /\ Len(cmdPending) < MaxPending
  /\ resumeOffsetMs' = 0
  /\ episodeIndex' = NextIndex(episodeIndex)
  /\ cmdPending' = Append(cmdPending, "skip")
  /\ UNCHANGED << ioVars, kaVars, catalogVars, hasStartedPlayback,
                  isPausedDueToEmpty, startedAtMs, ffmpegProc, currentEpisode,
                  playLock, lastAnnouncedEpisodeIdx, playerVars, procs, fetch,
                  loopTimers, clockVars, connVars, humanLoc >>

\* handleRestart up to `await interaction.reply`
HandleRestart ==
  /\ currentEpisode # Null
  /\ Len(cmdPending) < MaxPending
  /\ resumeOffsetMs' = 0
  /\ cmdPending' = Append(cmdPending, "restart")
  /\ UNCHANGED << ioVars, kaVars, catalogVars, episodeIndex,
                  hasStartedPlayback, isPausedDueToEmpty, startedAtMs,
                  ffmpegProc, currentEpisode, playLock,
                  lastAnnouncedEpisodeIdx, playerVars, procs, fetch,
                  loopTimers, clockVars, connVars, humanLoc >>

\* handlePause without its test of the player's status
HandlePauseAlways ==
  /\ resumeOffsetMs' = resumeOffsetMs + Elapsed
  /\ isPausedDueToEmpty' = TRUE
  /\ playerStatus' = "paused"
  /\ procs' = Kill(procs, ffmpegProc)
  /\ ffmpegProc' = Null
  /\ UNCHANGED << ioVars, kaVars, catalogVars, episodeIndex,
                  hasStartedPlayback, startedAtMs, currentEpisode, playLock,
                  lastAnnouncedEpisodeIdx, playerRes, fetch, loopTimers,
                  cmdPending, clockVars, connVars, humanLoc >>

\* handlePause (nothing follows its reply)
HandlePause ==
  /\ playerStatus = "playing"
  /\ resumeOffsetMs' = resumeOffsetMs + Elapsed
  /\ isPausedDueToEmpty' = TRUE
  /\ playerStatus' = "paused"
  /\ procs' = Kill(procs, ffmpegProc)
  /\ ffmpegProc' = Null
  /\ UNCHANGED << ioVars, kaVars, catalogVars, episodeIndex,
                  hasStartedPlayback, startedAtMs, currentEpisode, playLock,
                  lastAnnouncedEpisodeIdx, playerRes, fetch, loopTimers,
                  cmdPending, clockVars, connVars, humanLoc >>

\* handleResume up to `await interaction.reply`
HandleResume ==
  /\ ~(playerStatus = "playing" /\ ~isPausedDueToEmpty)
  /\ Len(cmdPending) < MaxPending
  /\ isPausedDueToEmpty' = FALSE
  /\ cmdPending' = Append(cmdPending, "resume")
  /\ UNCHANGED << ioVars, kaVars, catalogVars, episodeIndex,
                  hasStartedPlayback, resumeOffsetMs, startedAtMs, ffmpegProc,
                  currentEpisode, playLock, lastAnnouncedEpisodeIdx,
                  playerVars, procs, fetch, loopTimers, clockVars, connVars,
                  humanLoc >>

\* the reply of handleSkip / handleRestart / handleResume resolved:
\* playCurrent()
CommandReplied ==
  /\ \E i \in 1 .. Len(cmdPending) :
       /\ cmdPending' = Remove(cmdPending, i)
       /\ PlayCurrentSync(cmdPending[i], episodeIndex, resumeOffsetMs,
                          loopTimers)
  /\ UNCHANGED << ioVars, kaVars, catalogVars, episodeIndex,
                  hasStartedPlayback, isPausedDueToEmpty, resumeOffsetMs,
                  startedAtMs, ffmpegProc, lastAnnouncedEpisodeIdx,
                  playerVars, procs, clockVars, connVars, humanLoc >>

\* the reply rejected: the handler ends without calling playCurrent()
CommandReplyFailed ==
  /\ \E i \in 1 .. Len(cmdPending) : cmdPending' = Remove(cmdPending, i)
  /\ UNCHANGED << ioVars, kaVars, catalogVars, sessionVars, playerVars, procs,
                  fetch, loopTimers, clockVars, connVars, humanLoc >>

\* ------------------------------------------------- boot and voice connection
\* what the feed can answer at boot: the stable feed or one without a
\* playable item
BootFeeds == StableFeed \cup { <<0>> }

\* main(): `await fetchEpisodes()` returned (it never throws), the refresh
\* interval is set and ensureConnection() is called
MainFetchEpisodes ==
  /\ mainPc = "fetchEpisodes"
  /\ LoadEpisodes(BootFeeds)
  /\ mainPc' = "ensureConnection"
  /\ UNCHANGED << ioVars, kaVars, sessionVars, playerVars, procs, fetch,
                  loopTimers, cmdPending, clockVars, humanLoc, connection,
                  connStatus, waiters, rejoinTimers, ensurePending >>

Conns == 1 .. MaxConns

\* startKeepAlive without its stopKeepAlive()
StartKeepAliveNoStop(conn) ==
  /\ intervals' = intervals \cup {conn}
  /\ keepAliveInterval' = conn

\* startKeepAlive(conn): stopKeepAlive() clears the interval the variable
\* holds, then a new interval is set whose callback captures conn
StartKeepAlive(conn) ==
  /\ intervals' = (intervals \ {keepAliveInterval}) \cup {conn}
  /\ keepAliveInterval' = conn

FreshConns == { g \in Conns : connStatus[g] = "none" }

\* ensureConnection() after `await client.channels.fetch`: throws when the
\* channel is not a voice channel it can reach, joins when `connection` is
\* null and leaves an existing connection alone
JoinIfNone(ok) ==
  IF ok /\ connection = Null
  THEN /\ FreshConns # {}
       /\ LET g == CHOOSE x \in FreshConns : \A y \in FreshConns : x <= y
          IN  /\ connection' = g
              /\ connStatus' = [connStatus EXCEPT ![g] = "signalling"]
              /\ StartKeepAlive(g)
  ELSE UNCHANGED << connection, connStatus, kaVars >>

\* the ensureConnection() of main(): a throw reaches main().catch, which
\* exits the process
MainEnsureConnection(ok) ==
  /\ mainPc = "ensureConnection"
  /\ JoinIfNone(ok)
  /\ mainPc' = IF ok THEN "waiting" ELSE "exited"
  /\ UNCHANGED << ioVars, catalogVars, sessionVars, playerVars, procs, fetch,
                  loopTimers, cmdPending, clockVars, humanLoc, waiters,
                  rejoinTimers, ensurePending >>

\* the ensureConnection() of a rejoin timer: a throw is swallowed by
\* `.catch(() => {})`
RejoinEnsureConnection(ok) ==
  /\ ensurePending > 0
  /\ ensurePending' = ensurePending - 1
  /\ JoinIfNone(ok)
  /\ UNCHANGED << ioVars, catalogVars, sessionVars, playerVars, procs, fetch,
                  loopTimers, cmdPending, clockVars, humanLoc, mainPc,
                  waiters, rejoinTimers >>

\* the voice library: the connection is established
ConnReady ==
  /\ connection # Null
  /\ connStatus[connection] = "signalling"
  /\ connStatus' = [connStatus EXCEPT ![connection] = "ready"]
  /\ UNCHANGED << ioVars, kaVars, catalogVars, sessionVars, playerVars, procs,
                  fetch, loopTimers, cmdPending, clockVars, humanLoc, mainPc,
                  connection, waiters, rejoinTimers, ensurePending >>

\* connection.on(Disconnected): the handler starts its race of two
\* entersState(connection, ..., 5000)
OnDisconnected ==
  /\ connection # Null
  /\ connStatus[connection] \in {"signalling", "ready"}
  /\ BagCardinality(waiters) < MaxRejoin
  /\ connStatus' = [connStatus EXCEPT ![connection] = "disconnected"]
  /\ waiters' = waiters (+) SetToBag({connection})
  /\ UNCHANGED << ioVars, kaVars, catalogVars, sessionVars, playerVars, procs,
                  fetch, loopTimers, cmdPending, clockVars, humanLoc, mainPc,
                  connection, rejoinTimers, ensurePending >>

\* the disconnected connection starts connecting again (a voice server
\* update of the gateway, or the keep-alive's configureNetworking()): the
\* race of the handler waiting on it resolves and the handler ends
ConnRenegotiates ==
  /\ connection # Null
  /\ connStatus[connection] = "disconnected"
  /\ connStatus' = [connStatus EXCEPT ![connection] = "signalling"]
  /\ waiters' = [g \in DOMAIN waiters \ {connection} |-> waiters[g]]
  /\ UNCHANGED << ioVars, kaVars, catalogVars, sessionVars, playerVars, procs,
                  fetch, loopTimers, cmdPending, clockVars, humanLoc, mainPc,
                  connection, rejoinTimers, ensurePending >>

\* the race of a handler waiting on connection g rejects after 5000 ms:
\* setTimeout(..., REJOIN_DELAY_MS).  A handler that started after a
\* rejoin timer was armed waits as long as that timer, so it times out
\* only once the timer has fired.
EntersStateTimeout(g) ==
  /\ BagIn(g, waiters)
  /\ rejoinTimers = EmptyBag
  /\ waiters' = waiters (-) SetToBag({g})
  /\ rejoinTimers' = rejoinTimers (+) SetToBag({g})
  /\ UNCHANGED << ioVars, kaVars, catalogVars, sessionVars, playerVars, procs,
                  fetch, loopTimers, cmdPending, clockVars, humanLoc, mainPc,
                  connection, connStatus, ensurePending >>

\* the rejoin timer armed by a handler of connection g fires:
\* connection?.destroy(); connection = null; ensureConnection()
RejoinTimer(g) ==
  /\ BagIn(g, rejoinTimers)
  /\ ensurePending < MaxRejoin
  /\ rejoinTimers' = rejoinTimers (-) SetToBag({g})
  /\ connStatus' = IF connection = Null THEN connStatus
                   ELSE [connStatus EXCEPT ![connection] = "destroyed"]
  /\ connection' = Null
  /\ ensurePending' = ensurePending + 1
  /\ UNCHANGED << ioVars, kaVars, catalogVars, sessionVars, playerVars, procs,
                  fetch, loopTimers, cmdPending, clockVars, humanLoc, mainPc,
                  waiters >>

\* ------------------------------------------------------------------- Next
\* the handlers run by the event sources other than the clock and the
\* slash commands
Events ==
  \/ FetchEpisodes(StableFeed)
  \/ FetchDone
  \/ FetchFail
  \/ LoopPlayTimer
  \/ \E p \in Pids : FirstData(p)
  \/ PlayerReadable
  \/ \E p \in Pids : ProcExit(p)
  \/ PlayerIdle
  \/ PlayerError
  \/ \E p \in Pids : Watchdog(p)
  \/ \E newCh \in Loc, botPresent \in BOOLEAN :
       VoiceStateUpdate(newCh, botPresent)
  \/ \E joined \in BOOLEAN : BotVoiceStateUpdate(joined)

\* the slash commands
\* the event handlers when nothing fails: every fetch succeeds and no
\* transcoder exits, stalls or breaks its stream
Prompt ==
  \/ FetchEpisodes(StableFeed)
  \/ FetchDone
  \/ LoopPlayTimer
  \/ \E p \in Pids : FirstData(p)
  \/ PlayerReadable
  \/ \E newCh \in Loc, botPresent \in BOOLEAN :
       VoiceStateUpdate(newCh, botPresent)
  \/ \E joined \in BOOLEAN : BotVoiceStateUpdate(joined)

Commands ==
  \/ HandleSkip
  \/ HandleRestart
  \/ HandlePause
  \/ HandleResume
  \/ CommandReplied
  \/ CommandReplyFailed

\* the session under listeners coming and going, with the clock running
Next == Events \/ Tick

Spec == Init /\ [][Next]_vars

\* the session under listeners and slash commands when no transcoder
\* fails; the clock stands still, so every offset stays 0
NextCmd == Prompt \/ Commands

SpecCmd == Init /\ [][NextCmd]_vars

\* the /restart command against listeners coming and going, the clock
\* running
NextRestart ==
  Prompt \/ Tick \/ HandleRestart \/ CommandReplied \/ CommandReplyFailed

SpecRestart == Init /\ [][NextRestart]_vars

\* the /pause and /resume commands, the clock running
NextResume ==
  \/ Prompt
  \/ Tick
  \/ HandlePause
  \/ HandleResume
  \/ CommandReplied
  \/ CommandReplyFailed

SpecResume == Init /\ [][NextResume]_vars

\* a single-episode session under listeners, all four playback commands,
\* failing fetches and player errors, with a clock that runs and can be
\* set back
NextClock ==
  \/ FetchEpisodes(SingleFeed)
  \/ FetchDone
  \/ FetchFail
  \/ LoopPlayTimer
  \/ \E p \in Pids : FirstData(p)
  \/ PlayerReadable
  \/ PlayerError
  \/ \E newCh \in Loc, botPresent \in BOOLEAN :
       VoiceStateUpdate(newCh, botPresent)
  \/ \E joined \in BOOLEAN : BotVoiceStateUpdate(joined)
  \/ Commands
  \/ Tick
  \/ ClockBack

SpecClock == Init /\ [][NextClock]_vars

\* the session when nothing fails, under a listener who also moves to and
\* from another voice channel, the clock running
NextMove ==
  \/ FetchEpisodes(StableFeed)
  \/ FetchDone
  \/ LoopPlayTimer
  \/ \E p \in Pids : FirstData(p)
  \/ PlayerReadable
  \/ \E newCh \in Places, botPresent \in BOOLEAN :
       VoiceStateUpdate(newCh, botPresent)
  \/ \E joined \in BOOLEAN : BotVoiceStateUpdate(joined)
  \/ Tick

SpecMove == Init /\ [][NextMove]_vars

\* handlers run only while the process is alive
WhileRunning(A) == mainPc # "crashed" /\ A

\* the session under listeners when fetches and spawns can fail
NextFail ==
  \/ WhileRunning(FetchEpisodes(StableFeed))
  \/ WhileRunning(FetchDone)
  \/ WhileRunning(FetchFail)
  \/ WhileRunning(SpawnError)
  \/ WhileRunning(LoopPlayTimer)
  \/ WhileRunning(\E p \in Pids : FirstData(p))
  \/ WhileRunning(PlayerReadable)
  \/ WhileRunning(\E newCh \in Loc, botPresent \in BOOLEAN :
                    VoiceStateUpdate(newCh, botPresent))
  \/ WhileRunning(\E joined \in BOOLEAN : BotVoiceStateUpdate(joined))

SpecFail == Init /\ [][NextFail]_vars

\* a transcoder the session no longer holds and the player no longer reads
\* ends: the player destroyed its output stream when it took the next
\* resource, or it was killed
UnreadExit ==
  \E p \in Pids : p # ffmpegProc /\ p # playerRes /\ ProcExit(p)

\* the session under listeners coming and going, every failure possible,
\* when timers fire, the player reports the end of a stream, fetches
\* complete and do not fail for ever, and unread transcoders end
Fairness ==
  /\ WF_vars(LoopPlayTimer)
  /\ SF_vars(PlayerIdle)
  /\ SF_vars(\E p \in Pids : Watchdog(p))
  /\ WF_vars(UnreadExit)
  /\ SF_vars(FetchDone)

SpecLive == Init /\ [][Events]_vars /\ Fairness

\* the session when nothing fails, with transcoders that write
\* diagnostics, the clock running
NextDiag == Prompt \/ Tick \/ \E p \in Pids : StderrWrite(p)

SpecDiag == Init /\ [][NextDiag]_vars

\* spawnFfmpegFromStream on its own, over every format and offset
NextSpawn == SpawnFfmpeg

SpecSpawn == InitSpawn /\ [][NextSpawn]_vars

\* the session under listeners and failing fetches, with a feed that
\* changes between refreshes
NextFeed ==
  \/ FetchEpisodes(ChangingFeed)
  \/ FetchDone
  \/ FetchFail
  \/ LoopPlayTimer
  \/ \E p \in Pids : FirstData(p)
  \/ PlayerReadable
  \/ \E newCh \in Loc, botPresent \in BOOLEAN :
       VoiceStateUpdate(newCh, botPresent)
  \/ \E joined \in BOOLEAN : BotVoiceStateUpdate(joined)

SpecFeed == Init /\ [][NextFeed]_vars

\* boot and the supervision of the voice connection
NextConn ==
  \/ MainFetchEpisodes
  \/ \E ok \in BOOLEAN : MainEnsureConnection(ok)
  \/ \E ok \in BOOLEAN : RejoinEnsureConnection(ok)
  \/ ConnReady
  \/ OnDisconnected
  \/ ConnRenegotiates
  \/ \E g \in Conns : EntersStateTimeout(g)
  \/ \E g \in Conns : RejoinTimer(g)

SpecConn == Init /\ [][NextConn]_vars

\* ----------------------------------------------------------------- claims
\* C1: for every sequence of occupancy events, with any timing relative to
\* the fetch inside playCurrent, the first output byte and the watchdog, at
\* most one transcoder process is alive at any time.
C1_AtMostOneTranscoderAlive == Cardinality(LiveProcs) <= 1

\* C2: kill-before-replace: whenever playCurrent spawns a transcoder, every
\* transcoder spawned before has been terminated, so the new process is the
\* only one alive.
C2_KillBeforeReplace == [][FetchDone => LiveProcs' = {ffmpegProc'}]_vars

\* C3: a startup watchdog that fires for a transcoder whose stream the
\* player no longer holds (it was superseded, or it stopped and the session
\* moved on) is a no-op: it kills no transcoder, leaves the source index and
\* the offset alone and schedules no start.
C3_StaleWatchdogIsNoOp ==
  [][\A p \in Pids :
       (Watchdog(p) /\ p # playerRes)
         => /\ UNCHANGED << episodeIndex, resumeOffsetMs, loopTimers >>
            /\ \A q \in Pids : Alive(q) => procs'[q].state = "running"]_vars

\* C4: a listener returning to a session paused for an empty room keeps the
\* source index and keeps the accumulated offset if it is below 300000 ms,
\* else sets it to 0; the transcoder spawned by the playCurrent of that
\* return streams the same source and is handed that offset.
C4_ReturnResumesSameSource ==
  /\ [][(OccupancyNonzero /\ hasStartedPlayback /\ isPausedDueToEmpty)
          => /\ episodeIndex' = episodeIndex
             /\ resumeOffsetMs' =
                  IF resumeOffsetMs >= 300000 THEN 0 ELSE resumeOffsetMs]_vars
  /\ [][(FetchDone /\ fetch.by = "return")
          => /\ episodeIndex = fetch.idx
             /\ procs'[ffmpegProc'].ep = EpisodeAt(fetch.idx)
             /\ procs'[ffmpegProc'].seek = fetch.off]_vars

\* C5: once playback has begun, while no human is in the target channel the
\* session is paused and no transcoder is alive.
C5_EmptyRoomIsPaused ==
  (hasStartedPlayback /\ humanLoc = "none")
    => (isPausedDueToEmpty /\ LiveProcs = {})

\* C6: an occupancy-zero event received while a source is playing adds the
\* time since the first output byte of the current transcoder to the offset,
\* stops the current transcoder and leaves the source index unchanged.
C6_PauseAccumulatesOffset ==
  [][(OccupancyZero /\ playerStatus = "playing")
       => /\ ffmpegProc = playerRes
          /\ resumeOffsetMs' =
               resumeOffsetMs + (now - procs[playerRes].firstAt)
          /\ procs'[playerRes].state # "running"
          /\ isPausedDueToEmpty'
          /\ episodeIndex' = episodeIndex]_vars

\* C6 witness: the room emptied while a source was playing; the transcoder
\* was killed and a positive play time was added to the offset.
C6_Witness ==
  /\ humanLoc = "none" /\ isPausedDueToEmpty /\ playerStatus = "paused"
  /\ procs[playerRes].state = "killed" /\ procs[playerRes].gotData
  /\ now > procs[playerRes].firstAt
  /\ resumeOffsetMs >= procs[playerRes].seek + (now - procs[playerRes].firstAt)
  /\ procs[playerRes].seek > 0

\* C7: when a source ends naturally (its transcoder exited after producing
\* output and the session is not paused), the Idle handler resets the offset
\* to 0 and advances the source index by exactly 1 modulo the catalog
\* length, wrapping from the last index to 0; the next source is started
\* only afterwards, by the timer the handler schedules.
C7_NaturalEndAdvancesByOne ==
  [][(PlayerIdle /\ procs[playerRes].state = "exited"
        /\ procs[playerRes].gotData /\ ~isPausedDueToEmpty)
       => /\ resumeOffsetMs' = 0
          /\ episodeIndex' = (episodeIndex + 1) % Len(episodes)
          /\ (episodeIndex = Len(episodes) - 1 => episodeIndex' = 0)
          /\ loopTimers' = loopTimers + 1
          /\ fetch' = fetch
          /\ LiveProcs' \subseteq LiveProcs]_vars

\* C7 witness: the last source of the catalog, resumed at a positive offset,
\* has ended naturally and the player is about to report it.
C7_Witness ==
  /\ playerStatus = "playing" /\ ~isPausedDueToEmpty
  /\ procs[playerRes].state = "exited" /\ procs[playerRes].gotData
  /\ episodeIndex = Len(episodes) - 1 /\ resumeOffsetMs > 0
  /\ loopTimers < MaxTimers

\* C8: a transcoder of the last catalog source that exits without a byte
\* makes the session advance to index 0 with offset 0, and this one failure
\* causes exactly one advance: once the index advanced on its account, no
\* later event about the same stopped transcoder advances it again.
C8_NoByteExitAdvancesOnce ==
  /\ [][(PlayerIdle /\ procs[playerRes].state = "exited"
          /\ ~procs[playerRes].gotData /\ ~procs[playerRes].charged
          /\ ~isPausedDueToEmpty /\ episodeIndex = Len(episodes) - 1)
         => (episodeIndex' = 0 /\ resumeOffsetMs' = 0)]_vars
  /\ [][\A p \in Pids :
          (Watchdog(p) /\ procs[p].state \in {"exited", "dead"}
             /\ procs[p].charged)
            => UNCHANGED << episodeIndex, resumeOffsetMs >>]_vars
  /\ [][(PlayerIdle /\ procs[playerRes].state = "exited"
          /\ procs[playerRes].charged)
         => UNCHANGED << episodeIndex, resumeOffsetMs >>]_vars

\* C9: when the startup watchdog of the current transcoder expires before
\* any output byte, the transcoder is killed, the offset is reset to 0, the
\* index advances by one modulo the catalog length and one start is
\* scheduled; the Idle transition that reports the killed transcoder does
\* not advance the index again, so the next source is the one started.
C9_WatchdogAdvancesToNext ==
  /\ [][\A p \in Pids :
          (Watchdog(p) /\ p = ffmpegProc /\ Alive(p)
             /\ ~procs[p].gotData /\ ~isPausedDueToEmpty)
            => /\ procs'[p].state # "running"
               /\ resumeOffsetMs' = 0
               /\ episodeIndex' = NextIndex(episodeIndex)
               /\ loopTimers' = loopTimers + 1]_vars
  /\ [][(PlayerIdle /\ procs[playerRes].state = "killed"
          /\ ~procs[playerRes].gotData /\ procs[playerRes].charged)
         => UNCHANGED << episodeIndex, resumeOffsetMs, loopTimers >>]_vars

\* C10: every report of a failed source (fetch failure, player error, Idle
\* transition, watchdog timeout) while the session is not paused resets the
\* offset to 0 and advances the index by exactly one modulo the catalog
\* length, unless the index already advanced for that transcoder, in which
\* case the index stays.
C10_OneAdvancePerFailure ==
  [][LET Advance1 == /\ resumeOffsetMs' = 0
                     /\ episodeIndex' = NextIndex(episodeIndex)
         Once(p)  == IF p # Null /\ procs[p].charged
                     THEN episodeIndex' = episodeIndex
                     ELSE Advance1
     IN  /\ FetchFail => Advance1
         /\ (PlayerError /\ ~isPausedDueToEmpty) => Once(playerRes)
         /\ (PlayerIdle /\ ~isPausedDueToEmpty) => Once(playerRes)
         /\ \A p \in Pids :
              (Watchdog(p) /\ p = playerRes /\ ~procs[p].gotData
                 /\ ~isPausedDueToEmpty) => Once(p)]_vars

\* C11: a playCurrent called for a returning listener never announces the
\* source that was current when the room emptied, whether it resumes it at
\* the accumulated offset or restarts it from 0 over the threshold: the
\* call's isNewEpisodeStart is false, the transcoder it spawns keeps that
\* value, and a first byte announces (and records the index) only for a
\* transcoder whose isNewEpisodeStart is true.
C11_NoAnnouncementOnReturn ==
  /\ [][(OccupancyNonzero /\ hasStartedPlayback /\ ~fetch.active
          /\ fetch'.active)
         => /\ fetch'.by = "return"
            /\ fetch'.ep = currentEpisode => ~fetch'.isNew]_vars
  /\ [][FetchDone => procs'[ffmpegProc'].isNew = fetch.isNew]_vars
  /\ [][\A p \in Pids :
          (FirstData(p) /\ ~procs[p].isNew)
            => UNCHANGED lastAnnouncedEpisodeIdx]_vars

\* C12: once something has been announced, a playCurrent called by the
\* /skip command is never a new-episode start, so the source a skip starts
\* is not announced.
C12_NoAnnouncementOnSkip ==
  [][(CommandReplied /\ ~fetch.active /\ fetch'.active
        /\ fetch'.by = "skip" /\ lastAnnouncedEpisodeIdx # -1)
       => ~fetch'.isNew]_vars

\* C13: no transcoder is spawned before the first occupancy-nonzero event
\* has been observed (hasStartedPlayback), whatever commands or timers
\* occur.
C13_NoSpawnBeforeFirstListener == [][FetchDone => hasStartedPlayback]_vars

\* C14: there are never two pending rejoin timers, and a rejoin timer
\* destroys only the connection whose Disconnected handler armed it, never
\* one that an earlier rejoin has created since.
C14_OneReconnectionInFlight ==
  /\ [](BagCardinality(rejoinTimers) <= 1)
  /\ [][\A g \in Conns :
          (RejoinTimer(g) /\ connection # Null) => connection = g]_vars

\* C15: the supervisor keeps retrying: once main() waits for listeners,
\* whenever there is no connection a recreate attempt is under way or
\* still to come (an ensureConnection in its fetch, a rejoin timer, or a
\* handler that will arm one).
C15_RejoinKeepsRetrying ==
  (mainPc = "waiting" /\ connection = Null)
    => \/ ensurePending > 0
       \/ rejoinTimers # EmptyBag
       \/ waiters # EmptyBag

\* C16: main() reaches the wait-for-listeners state only with a catalog
\* that holds a playable source; an empty catalog at boot is fatal.
C16_EmptyCatalogFatalAtBoot == mainPc = "waiting" => Len(episodes) > 0

\* C17: handleSkip resets the offset to 0 and advances the index by one
\* modulo the catalog length, and when its playCurrent() has been called
\* the source being started is the one at the new index, also when a
\* previous start is still in flight (playLock held).
C17_SkipStreamsNewIndex ==
  /\ [][HandleSkip => /\ resumeOffsetMs' = 0
                      /\ episodeIndex' = NextIndex(episodeIndex)]_vars
  /\ [][(CommandReplied /\ Len(episodes) > 0
          /\ \E i \in 1 .. Len(cmdPending) :
               /\ cmdPending[i] = "skip"
               /\ cmdPending' = Remove(cmdPending, i))
         => /\ fetch'.active
            /\ fetch'.ep = EpisodeAt(episodeIndex)]_vars

\* C18: handleRestart leaves the index unchanged, and the transcoder its
\* playCurrent spawns plays the same source from offset 0, also when an
\* occupancy-zero event arrives between the command and the spawn.
C18_RestartFromZero ==
  /\ [][HandleRestart => UNCHANGED episodeIndex]_vars
  /\ [][(FetchDone /\ fetch.by = "restart")
         => /\ procs'[ffmpegProc'].seek = 0
            /\ procs'[ffmpegProc'].ep = fetch.ep
            /\ fetch.ep = EpisodeAt(episodeIndex)]_vars

\* C19: the transcoder started for a /resume command follows the decision
\* of a returning listener: it starts from 0 when the accumulated offset
\* is 300000 ms or more, so it never seeks to 300000 ms or beyond.
C19_ResumeAppliesThreshold ==
  [][(FetchDone /\ fetch.by = "resume")
       => procs'[ffmpegProc'].seek < RESUME_RESTART_THRESHOLD_MS]_vars

\* C20: the accumulated offset is never negative, whatever the order of
\* pauses, resumes, skips, restarts, failures and clock readings, the clock
\* being set back included.
C20_OffsetNeverNegative == resumeOffsetMs >= 0

\* the clock has been set back behind the time of the first byte and the
\* playback was paused with nothing accumulated
C20_Witness ==
  /\ stepsBack > 0
  /\ startedAtMs > now
  /\ isPausedDueToEmpty
  /\ playerStatus = "paused"
  /\ ffmpegProc = Null
  /\ resumeOffsetMs = 0

\* C21: at every pause of a source whose transcoder is running and playing,
\* the offset becomes the offset that transcoder was started with plus the
\* time since its first byte, and while the player stays paused below the
\* threshold the
\* offset does not move unless the source is given up (index advanced,
\* offset 0); so the offset handed over at each resume is the sum of the
\* playing intervals since the source last started from 0.
C21_OffsetIsSumOfPlayTime ==
  /\ [][(OccupancyZero /\ playerStatus = "playing"
          /\ ffmpegProc = playerRes /\ Alive(playerRes))
         => resumeOffsetMs' =
              procs[playerRes].seek + (now - procs[playerRes].firstAt)]_vars
  /\ [][(playerStatus = "paused" /\ playerStatus' = "paused"
          /\ resumeOffsetMs < RESUME_RESTART_THRESHOLD_MS)
         => \/ resumeOffsetMs' = resumeOffsetMs
            \/ resumeOffsetMs' = 0 /\ episodeIndex' # episodeIndex]_vars

\* C22: a human entering the target channel, from no channel or from
\* another voice channel, is observed as occupancy (the first one starts
\* the session, a later one ends the empty-room pause); a human leaving the
\* target channel while a source plays is observed (the session pauses);
\* a bot's voice-state change in a room without humans starts nothing.
C22_OccupancyChangesObserved ==
  /\ [][(humanLoc # "target" /\ humanLoc' = "target")
         => /\ hasStartedPlayback'
            /\ ~isPausedDueToEmpty']_vars
  /\ [][(humanLoc = "target" /\ humanLoc' # "target"
          /\ playerStatus = "playing")
         => isPausedDueToEmpty']_vars
  /\ [][((\E j \in BOOLEAN : BotVoiceStateUpdate(j)) /\ humanLoc # "target")
         => UNCHANGED << hasStartedPlayback, fetch >>]_vars

\* C23: the startup watchdog is disarmed by the first output byte: a
\* transcoder that has produced a byte has no watchdog armed, so its
\* watchdog never fires however long the source then plays.
C23_WatchdogDisarmedByFirstByte ==
  \A p \in Pids : procs[p].gotData => ~procs[p].wd

\* C23 witness: a transcoder has been playing for two clock steps since its
\* first byte and is still running, its watchdog gone.
C23_Witness ==
  /\ playerStatus = "playing"
  /\ Alive(playerRes)
  /\ procs[playerRes].gotData
  /\ ~procs[playerRes].wd
  /\ now = procs[playerRes].firstAt + 2 * TickMs

\* C24: no failure of a source escapes playCurrent: the process never ends
\* on one; a failed fetch or spawn resets the offset, advances the index,
\* schedules one retry and releases playLock; and playLock is held exactly
\* while a playCurrent is suspended in its fetch.
C24_FailureStaysInsidePlayCurrent ==
  /\ [](mainPc # "crashed")
  /\ [](playLock <=> fetch.active)
  /\ [][FetchFail => /\ resumeOffsetMs' = 0
                     /\ episodeIndex' = NextIndex(episodeIndex)
                     /\ loopTimers' = loopTimers + 1
                     /\ ~playLock']_vars

\* the room is occupied, the catalog is not empty and playback was asked for
Occupied == hasStartedPlayback /\ humanLoc = "target" /\ Len(episodes) > 0

\* the session holds a running transcoder
Started == ffmpegProc # Null /\ Alive(ffmpegProc)

C26_StderrNeverFull ==
  \A p \in Pids : ~StderrBlocks(p)

\* the positions of the argument a in args
Positions(a) == { i \in DOMAIN spawnArgs : spawnArgs[i] = a }

\* C27: in the argument list of every spawn, "-ss" occurs once and before
\* the one "-i", and it is followed by the decimal numeral of the whole
\* seconds q with 1000 q <= offsetMs < 1000 (q + 1).
C27_SeekIsFloorAndBeforeInput ==
  spawnArgs # << >> =>
    \E s \in Positions("-ss"), i \in Positions("-i") :
      /\ Positions("-ss") = {s}
      /\ Positions("-i") = {i}
      /\ s + 1 < i
      /\ \E q \in 0 .. MaxOffsetMs :
           /\ 1000 * q <= spawnIn.offsetMs
           /\ spawnIn.offsetMs < 1000 * (q + 1)
           /\ spawnArgs[s + 1] = ToString(q)

C27_Witness ==
  /\ spawnArgs # << >>
  /\ spawnIn.offsetMs = 1999
  /\ spawnIn.fmt = "mp3"
  /\ spawnArgs[6] = "-ss"
  /\ spawnArgs[7] = "1"
  /\ spawnArgs[10] = "-i"

\* C28: an occupancy-nonzero event that arrives while the player is playing
\* and the session is not paused starts no playCurrent, spawns and kills
\* nothing, and leaves the offset, the index and the paused flag as they
\* were.
C28_NonzeroWhilePlayingIsNoOp ==
  [][(OccupancyNonzero /\ playerStatus = "playing" /\ ~isPausedDueToEmpty)
       => UNCHANGED << resumeOffsetMs, episodeIndex, isPausedDueToEmpty,
                       playLock, fetch, procs, ffmpegProc, loopTimers >>]_vars

\* C29: every pause leaves the session with a player that is not playing,
\* and an occupancy-zero event or a /pause command that finds the session
\* paused adds nothing to the offset, kills nothing and leaves the index.
C29_PauseIsIdempotent ==
  /\ [][(OccupancyZero \/ HandlePause)
         => (isPausedDueToEmpty' => playerStatus' # "playing")]_vars
  /\ [][((OccupancyZero \/ HandlePause) /\ isPausedDueToEmpty)
         => UNCHANGED << resumeOffsetMs, episodeIndex, procs, ffmpegProc,
                         isPausedDueToEmpty, playerVars >>]_vars

C29_Witness ==
  /\ isPausedDueToEmpty
  /\ playerStatus = "paused"
  /\ humanLoc = "none"
  /\ resumeOffsetMs = TickMs
  /\ now = startedAtMs + 2 * TickMs

\* C30: while the session is paused, an Idle event, a player error, a
\* watchdog expiry, a retry timer and the failure of a start in flight
\* leave the index and the offset unchanged.
C30_PausedSessionKeepsPosition ==
  [][(isPausedDueToEmpty
       /\ (\/ PlayerIdle
           \/ PlayerError
           \/ \E p \in Pids : Watchdog(p)
           \/ LoopPlayTimer
           \/ FetchFail))
      => UNCHANGED << episodeIndex, resumeOffsetMs >>]_vars

\* C31: whenever the session holds a running transcoder, currentEpisode is
\* the catalog entry at episodeIndex.
C31_CurrentEpisodeIsStreamed ==
  Alive(ffmpegProc) => currentEpisode = EpisodeAt(episodeIndex)

\* C32: a voice-state event of the target channel that finds the listener
\* already there while the session is paused (a pause that only the /pause
\* command can have made) leaves the session paused and starts nothing.
C32_CommandPauseSurvivesVoiceEvents ==
  [][(isPausedDueToEmpty /\ humanLoc = "target" /\ OccupancyNonzero)
       => UNCHANGED << isPausedDueToEmpty, playLock, fetch >>]_vars

\* the listener is in the room, playback was asked for and nothing was ever
\* started: every playCurrent so far found the catalog empty
NothingStartedYet ==
  /\ hasStartedPlayback
  /\ humanLoc = "target"
  /\ currentEpisode = Null

\* C33: a playCurrent that finds the catalog empty (run by the first
\* listener's event or by a retry timer) spawns nothing, holds no lock
\* afterwards, leaves the index and the offset and leaves one more retry
\* timer pending than it consumed; and once the catalog is non-empty with
\* the listener in the room a transcoder is eventually started, unless the
\* listener leaves first.
C33_EmptyCatalogRetries ==
  /\ [][(Len(episodes) = 0 /\ ~hasStartedPlayback /\ hasStartedPlayback')
         => /\ loopTimers' = loopTimers + 1
            /\ UNCHANGED << episodeIndex, resumeOffsetMs, procs, ffmpegProc,
                            playLock, fetch >>]_vars
  /\ [][(Len(episodes) = 0 /\ LoopPlayTimer /\ hasStartedPlayback
          /\ ~isPausedDueToEmpty)
         => /\ loopTimers' = loopTimers
            /\ UNCHANGED << episodeIndex, resumeOffsetMs, procs, ffmpegProc,
                            playLock, fetch >>]_vars
  /\ (NothingStartedYet /\ Len(episodes) > 0)
       ~> (Started \/ humanLoc # "target")

C33_Witness ==
  /\ NothingStartedYet
  /\ Len(episodes) > 0
  /\ loopTimers = 1
  /\ ~playLock
  /\ \A p \in Pids : procs[p] = Gone

\* C34: no step empties a catalog that holds an item: a refresh that
\* fails, or that returns no playable item, keeps the previous list.
C34_CatalogNeverEmptiedAgain ==
  [][Len(episodes) > 0 => Len(episodes') > 0]_vars

C34_Witness ==
  /\ episodes = << 2 >>
  /\ currentEpisode = 1
  /\ hasStartedPlayback

\* C35: whenever the catalog is not empty, episodeIndex is a position in it.
C35_IndexWithinCatalog ==
  Len(episodes) > 0 => (episodeIndex # NaN /\ episodeIndex >= 0
                        /\ episodeIndex < Len(episodes))

\* C36: the event that finds the first listener, with a catalog loaded,
\* starts a playCurrent for the source at index 0 and offset 0, whatever
\* the offset and the paused flag were, and marks it to be announced at
\* its first byte.
C36_FirstListenerStartsFirstSource ==
  [][(~hasStartedPlayback /\ hasStartedPlayback' /\ Len(episodes) > 0)
       => /\ fetch'.active
          /\ fetch'.by = "first"
          /\ fetch'.idx = 0
          /\ fetch'.off = 0
          /\ fetch'.isNew]_vars

\* C37: at most one keepalive interval is running, and while `connection`
\* holds a connection the running interval is the one whose callback acts
\* on that connection.
C37_OneKeepAliveOnCurrentConnection ==
  /\ Cardinality(intervals) <= 1
  /\ connection # Null => intervals = {connection}

C37_Witness ==
  /\ connection = 2
  /\ connStatus[1] = "destroyed"
  /\ intervals = {2}
  /\ keepAliveInterval = 2

\* C38: a playCurrent called while another holds playLock (by a retry
\* timer, by a command after its reply, or by an occupancy event) starts no
\* fetch, spawns nothing, schedules no retry and leaves the lock, the
\* index and the current source; the timer and the commands' calls leave
\* the offset too.
C38_PlayLockAdmitsOne ==
  /\ [][(playLock /\ (LoopPlayTimer \/ CommandReplied \/ OccupancyNonzero))
         => /\ UNCHANGED << playLock, fetch, procs, ffmpegProc,
                            episodeIndex, currentEpisode >>
            /\ loopTimers' <= loopTimers]_vars
  /\ [][(playLock /\ (LoopPlayTimer \/ CommandReplied))
         => UNCHANGED resumeOffsetMs]_vars

C38_Witness ==
  /\ playLock
  /\ fetch.by = "skip"
  /\ hasStartedPlayback
  /\ loopTimers = 0
  /\ \A p \in Pids : procs[p] = Gone
====
